---- MODULE Spec2Model ----
(***************************************************************************)
(* votingsys: the single-mark vote (votingsys.vote.single_mark) and, in    *)
(* the second part of the module, the ranked vote (votingsys.vote.rank).   *)
(*                                                                         *)
(* A collections.Counter is modelled as the sequence of its items          *)
(* <<key, count>> in insertion order (a Python dict keeps insertion        *)
(* order, and most_common / items() / max() observe it).  A candidate is   *)
(* a Python str; CodePoints gives the code points that str comparison      *)
(* (and so sorted()) works on.  The outcome of a call is a record          *)
(* [kind, val]: kind "ok" with the returned value, or the name of the      *)
(* exception raised with what its message reports.                         *)
(*                                                                         *)
(* Spec is the API of SingleMarkVote (constructors and queries) on one     *)
(* instance; SpecAlias adds a caller that keeps using the Counter object   *)
(* it passed to __init__, which the instance stores by reference;          *)
(* SpecRanked is the API of RankedVote on one instance, and                *)
(* SpecRankedAlias adds a caller that writes the DataFrame it shares with  *)
(* the instance: a count cell, a new row, a dropped column.                *)
(***************************************************************************)
EXTENDS Integers, Sequences, FiniteSets, TLC

VARIABLES vote, aliased, last

vars == <<vote, aliased, last>>

\* Bounds of the model.
MaxCount == 3
MaxLen == 4

\* The candidates the inputs are drawn from, and the code points of each name
\* that sorted() is applied to (the default name of the count column of a
\* ranked vote included).
Candidates == {"a", "ab", "b"}
CodePoints ==
    [a |-> <<97>>, ab |-> <<97, 98>>, b |-> <<98>>,
     count |-> <<99, 111, 117, 110, 116>>]

\* Count values a caller may put in a Counter (a negative one included).
CountValues == (0 - 1) .. MaxCount

\* Thresholds handed to super_majority_winner, as exact fractions <<p, q>> = p/q.
\* The counts of the model are far below 2^53, so the float quotient
\* num_votes / total_votes compares with the float p/q exactly as the
\* fractions do.
Thresholds == {<<2, 5>>, <<1, 2>>, <<3, 5>>, <<2, 3>>, <<3, 4>>}

----------------------------------------------------------------------------
\* Outcomes of a call.

Ok(v) == [kind |-> "ok", val |-> v]

Raise(k, v) == [kind |-> k, val |-> v]

----------------------------------------------------------------------------
\* str comparison and sorted().

\* Python's str.__lt__: lexicographic on code points, a proper prefix is smaller.
RECURSIVE LexLess(_, _)
LexLess(s, t) ==
    IF t = <<>> THEN FALSE
    ELSE IF s = <<>> THEN TRUE
    ELSE IF Head(s) # Head(t) THEN Head(s) < Head(t)
    ELSE LexLess(Tail(s), Tail(t))

StrLess(x, y) == LexLess(CodePoints[x], CodePoints[y])

\* Insertion of x in an ascending list, after the elements not greater than x.
RECURSIVE SortedInsert(_, _)
SortedInsert(x, seq) ==
    IF seq = <<>> THEN <<x>>
    ELSE IF StrLess(x, Head(seq)) THEN <<x>> \o seq
    ELSE <<Head(seq)>> \o SortedInsert(x, Tail(seq))

\* sorted(list of str): ascending, stable.
RECURSIVE sorted(_)
sorted(seq) ==
    IF seq = <<>> THEN <<>>
    ELSE SortedInsert(seq[Len(seq)], sorted(SubSeq(seq, 1, Len(seq) - 1)))

----------------------------------------------------------------------------
\* collections.Counter.

Keys(counter) == {counter[i][1] : i \in DOMAIN counter}

\* counter[key], with Counter.__missing__ giving 0.
GetItem(counter, key) ==
    IF key \in Keys(counter)
    THEN LET i == CHOOSE j \in DOMAIN counter : counter[j][1] = key IN counter[i][2]
    ELSE 0

\* counter[key] = n: in place for a present key, appended for a new one.
SetItem(counter, key, n) ==
    IF key \in Keys(counter)
    THEN [i \in DOMAIN counter |->
             IF counter[i][1] = key THEN <<key, n>> ELSE counter[i]]
    ELSE Append(counter, <<key, n>>)

\* del counter[key].
RECURSIVE DelItem(_, _)
DelItem(counter, key) ==
    IF counter = <<>> THEN <<>>
    ELSE IF Head(counter)[1] = key THEN Tail(counter)
    ELSE <<Head(counter)>> \o DelItem(Tail(counter), key)

\* Counter(iterable) that records a mark without counting its repetitions.
RECURSIVE CounterOf_once(_)
CounterOf_once(votes) ==
    IF votes = <<>> THEN <<>>
    ELSE SetItem(CounterOf_once(SubSeq(votes, 1, Len(votes) - 1)), votes[Len(votes)], 1)

\* Counter(iterable): one increment per element, keys in order of first occurrence.
RECURSIVE CounterOf(_)
CounterOf(votes) ==
    IF votes = <<>> THEN <<>>
    ELSE LET c == CounterOf(SubSeq(votes, 1, Len(votes) - 1))
             e == votes[Len(votes)]
         IN SetItem(c, e, GetItem(c, e) + 1)

\* Counter.total(): sum(self.values()).
RECURSIVE total(_)
total(counter) ==
    IF counter = <<>> THEN 0 ELSE Head(counter)[2] + total(Tail(counter))

\* max(counter.values()) of a non-empty counter.
RECURSIVE MaxValue(_)
MaxValue(counter) ==
    IF Len(counter) = 1 THEN counter[1][2]
    ELSE LET m == MaxValue(Tail(counter))
         IN IF Head(counter)[2] >= m THEN Head(counter)[2] ELSE m

\* Counter.most_common(1): heapq.nlargest(1, items, key=count), which is
\* max(items, key=count): the first item holding the maximum, [] when empty.
most_common_1(counter) ==
    IF counter = <<>> THEN <<>>
    ELSE LET m == MaxValue(counter)
             i == CHOOSE j \in DOMAIN counter :
                      /\ counter[j][2] = m
                      /\ \A k \in DOMAIN counter : counter[k][2] = m => j <= k
         IN <<counter[i]>>

----------------------------------------------------------------------------
\* Validation (votingsys.utils.counter).

\* check_non_negative_count that returns after the first item.
check_non_negative_count_first(counter) ==
    IF counter = <<>> THEN Ok("None")
    ELSE IF Head(counter)[2] < 0 THEN Raise("ValueError", Head(counter))
    ELSE Ok("None")

\* check_non_negative_count: raises on the first item, in iteration order,
\* whose value is < 0; the message names the key and the value.
RECURSIVE check_non_negative_count(_)
check_non_negative_count(counter) ==
    IF counter = <<>> THEN Ok("None")
    ELSE IF Head(counter)[2] < 0 THEN Raise("ValueError", Head(counter))
    ELSE check_non_negative_count(Tail(counter))

\* check_non_empty_count: raises when the counter has no entry.
check_non_empty_count(counter) ==
    IF Len(counter) = 0 THEN Raise("ValueError", "empty") ELSE Ok("None")

----------------------------------------------------------------------------
\* SingleMarkVote.

\* SingleMarkVote.__init__: the two checks, then self._counter = counter.
SingleMarkVote_init(counter) ==
    LET neg == check_non_negative_count(counter)
        emp == check_non_empty_count(counter)
    IN IF neg.kind # "ok" THEN neg
       ELSE IF emp.kind # "ok" THEN emp
       ELSE Ok([class |-> "SingleMarkVote", _counter |-> counter])

\* get_num_candidates that counts the candidates holding a vote only.
get_num_candidates_voted(self) ==
    Cardinality({i \in DOMAIN self._counter : self._counter[i][2] > 0})

get_num_candidates(self) == Len(self._counter)

get_num_voters(self) == total(self._counter)

\* num / den > p / q, for den # 0 and q > 0.
TrueDivGreater(num, den, p, q) ==
    IF den > 0 THEN num * q > p * den ELSE num * q < p * den

\* absolute_majority_winner with >= in place of >.
absolute_majority_winner_ge(self) ==
    LET total_votes == get_num_voters(self)
        mc == most_common_1(self._counter)
    IN IF mc = <<>> THEN Raise("IndexError", "list index out of range")
       ELSE IF total_votes = 0 THEN Raise("ZeroDivisionError", "division by zero")
       ELSE IF 2 * mc[1][2] >= total_votes THEN Ok(mc[1][1])
       ELSE Raise("WinnerNotFoundError", "absolute majority")

absolute_majority_winner(self) ==
    LET total_votes == get_num_voters(self)
        mc == most_common_1(self._counter)
    IN IF mc = <<>> THEN Raise("IndexError", "list index out of range")
       ELSE LET candidate == mc[1][1]
                num_votes == mc[1][2]
            IN IF total_votes = 0 THEN Raise("ZeroDivisionError", "division by zero")
               ELSE IF TrueDivGreater(num_votes, total_votes, 1, 2) THEN Ok(candidate)
               ELSE Raise("WinnerNotFoundError", "absolute majority")

\* super_majority_winner that returns the leading candidate whatever its share.
super_majority_winner_leader(self, threshold) ==
    IF threshold[1] * 2 <= threshold[2]
    THEN Raise("ValueError", "threshold must be >0.5")
    ELSE LET mc == most_common_1(self._counter)
         IN IF mc = <<>> THEN Raise("IndexError", "list index out of range")
            ELSE IF get_num_voters(self) = 0
                 THEN Raise("ZeroDivisionError", "division by zero")
            ELSE Ok(mc[1][1])

super_majority_winner(self, threshold) ==
    IF threshold[1] * 2 <= threshold[2]
    THEN Raise("ValueError", "threshold must be >0.5")
    ELSE LET total_votes == get_num_voters(self)
             mc == most_common_1(self._counter)
         IN IF mc = <<>> THEN Raise("IndexError", "list index out of range")
            ELSE LET candidate == mc[1][1]
                     num_votes == mc[1][2]
                 IN IF total_votes = 0
                    THEN Raise("ZeroDivisionError", "division by zero")
                    ELSE IF TrueDivGreater(num_votes, total_votes,
                                           threshold[1], threshold[2])
                         THEN Ok(candidate)
                    ELSE Raise("WinnerNotFoundError", "super majority")

\* [cand for cand, count in items if count == max_count], in items order.
RECURSIVE MaxCandidates(_, _)
MaxCandidates(counter, max_count) ==
    IF counter = <<>> THEN <<>>
    ELSE (IF Head(counter)[2] = max_count THEN <<Head(counter)[1]>> ELSE <<>>)
         \o MaxCandidates(Tail(counter), max_count)

\* plurality_winners without the sort: the tied candidates in insertion order.
plurality_winners_unsorted(self) ==
    IF self._counter = <<>>
    THEN Raise("ValueError", "max() arg is an empty sequence")
    ELSE Ok(MaxCandidates(self._counter, MaxValue(self._counter)))

plurality_winners(self) ==
    IF self._counter = <<>>
    THEN Raise("ValueError", "max() arg is an empty sequence")
    ELSE LET max_count == MaxValue(self._counter)
             max_candidates == MaxCandidates(self._counter, max_count)
         IN Ok(sorted(max_candidates))

\* plurality_winner that returns the first of the tied candidates.
plurality_winner_first(self) ==
    LET winners == plurality_winners(self)
    IN IF winners.kind # "ok" THEN winners ELSE Ok(winners.val[1])

plurality_winner(self) ==
    LET winners == plurality_winners(self)
    IN IF winners.kind # "ok" THEN winners
       ELSE IF Len(winners.val) > 1
            THEN Raise("MultipleWinnersFoundError", winners.val)
       ELSE Ok(winners.val[1])

\* coola.objects_are_equal on two Counters: equal as mappings.
CounterEqual(c1, c2) ==
    /\ Len(c1) = Len(c2)
    /\ Keys(c1) = Keys(c2)
    /\ \A k \in Keys(c1) : GetItem(c1, k) = GetItem(c2, k)

\* SingleMarkVote.equal: False for a value of another class.
equal(self, other) ==
    IF other.class # self.class THEN FALSE
    ELSE CounterEqual(self._counter, other._counter)

from_sequence(votes) == SingleMarkVote_init(CounterOf(votes))

\* polars.Series.to_list(): the values of the series as a Python list.
to_list(series) == [i \in 1 .. Len(series.values) |-> series.values[i]]

from_series(series) == from_sequence(to_list(series))

----------------------------------------------------------------------------
\* The inputs the operations are called with.

\* The orders in which n distinct keys may be inserted in a dict.
KeyOrders ==
    {ks \in UNION {[1 .. n -> Candidates] : n \in 0 .. Cardinality(Candidates)} :
        \A i, j \in DOMAIN ks : ks[i] = ks[j] => i = j}

\* Every Counter over the candidates with values in CountValues, the empty one
\* and the ones holding a negative value included.
CounterInputs ==
    UNION {{[i \in DOMAIN ks |-> <<ks[i], f[i]>>] : f \in [DOMAIN ks -> CountValues]} :
              ks \in KeyOrders}

\* Every sequence of at most MaxLen marks.
VoteSequences == UNION {[1 .. n -> Candidates] : n \in 0 .. MaxLen}

\* A polars.Series of str holding the marks.
SeriesOf(marks) == [dtype |-> "String", values |-> marks]

\* A value that is no SingleMarkVote (the int 1 of the unit test).
NotAVote == [class |-> "int", _counter |-> <<>>]

\* The arguments equal() is called with: a value of another type, and the votes
\* built from the sequences of at most two marks and from the receiver's own
\* items listed in reverse order.
OtherVotes(self) ==
    {NotAVote}
    \cup {[class |-> "SingleMarkVote", _counter |-> CounterOf(v)] :
             v \in {w \in VoteSequences : Len(w) \in 1 .. 2}}
    \cup {[class |-> "SingleMarkVote",
           _counter |-> [i \in DOMAIN self._counter |->
                            self._counter[Len(self._counter) + 1 - i]]]}

\* No instance yet.
NoVote == [class |-> "NoneType", _counter |-> <<>>]

IsVote(v) == v.class = "SingleMarkVote"

Call(op, arg, out) == [op |-> op, arg |-> arg, out |-> out]

----------------------------------------------------------------------------
\* The state machine.  vote is the SingleMarkVote under observation, from the
\* first constructor call that succeeds on (its _counter field is the Counter
\* object the instance refers to); aliased tells
\* whether the caller still holds a reference to that same Counter object (it
\* was passed to __init__, not built inside a factory); last is the last call
\* and its outcome.

Init ==
    /\ vote = NoVote
    /\ aliased = FALSE
    /\ last = Call("none", "none", Ok("None"))

\* A constructor call that ended with `out`: the instance exists on success
\* only; a failed construction leaves everything as it was.
Constructed(out, byCaller) ==
    IF out.kind = "ok"
    THEN /\ vote' = out.val
         /\ aliased' = byCaller
    ELSE UNCHANGED <<vote, aliased>>

\* SingleMarkVote(counter)
Construct ==
    /\ ~IsVote(vote)
    /\ \E counter \in CounterInputs :
           LET out == SingleMarkVote_init(counter)
           IN /\ last' = Call("__init__", counter, out)
              /\ Constructed(out, TRUE)

\* SingleMarkVote.from_sequence(votes)
FromSequence ==
    /\ ~IsVote(vote)
    /\ \E votes \in VoteSequences :
           LET out == from_sequence(votes)
           IN /\ last' = Call("from_sequence", votes, out)
              /\ Constructed(out, FALSE)

\* SingleMarkVote.from_series(pl.Series(votes))
FromSeries ==
    /\ ~IsVote(vote)
    /\ \E votes \in VoteSequences :
           LET out == from_series(SeriesOf(votes))
           IN /\ last' = Call("from_series", votes, out)
              /\ Constructed(out, FALSE)

GetNumCandidates ==
    /\ IsVote(vote)
    /\ last' = Call("get_num_candidates", "none", Ok(get_num_candidates(vote)))
    /\ UNCHANGED <<vote, aliased>>

GetNumVoters ==
    /\ IsVote(vote)
    /\ last' = Call("get_num_voters", "none", Ok(get_num_voters(vote)))
    /\ UNCHANGED <<vote, aliased>>

AbsoluteMajorityWinner ==
    /\ IsVote(vote)
    /\ last' = Call("absolute_majority_winner", "none", absolute_majority_winner(vote))
    /\ UNCHANGED <<vote, aliased>>

SuperMajorityWinner ==
    /\ IsVote(vote)
    /\ \E threshold \in Thresholds :
           last' = Call("super_majority_winner", threshold,
                        super_majority_winner(vote, threshold))
    /\ UNCHANGED <<vote, aliased>>

PluralityWinner ==
    /\ IsVote(vote)
    /\ last' = Call("plurality_winner", "none", plurality_winner(vote))
    /\ UNCHANGED <<vote, aliased>>

PluralityWinners ==
    /\ IsVote(vote)
    /\ last' = Call("plurality_winners", "none", plurality_winners(vote))
    /\ UNCHANGED <<vote, aliased>>

Equal ==
    /\ IsVote(vote)
    /\ \E other \in OtherVotes(vote) :
           last' = Call("equal", other, Ok(equal(vote, other)))
    /\ UNCHANGED <<vote, aliased>>

\* The caller, holding the Counter it passed to __init__, runs counter[key] = n.
CallerSetItem ==
    /\ IsVote(vote)
    /\ aliased
    /\ \E key \in Candidates, n \in CountValues :
           /\ vote' = [vote EXCEPT !._counter = SetItem(vote._counter, key, n)]
           /\ last' = Call("caller_setitem", <<key, n>>, Ok("None"))
    /\ UNCHANGED aliased

\* The caller, holding the Counter it passed to __init__, runs del counter[key].
CallerDelItem ==
    /\ IsVote(vote)
    /\ aliased
    /\ \E key \in Keys(vote._counter) :
           /\ vote' = [vote EXCEPT !._counter = DelItem(vote._counter, key)]
           /\ last' = Call("caller_delitem", key, Ok("None"))
    /\ UNCHANGED aliased

\* The API of the class: the constructors and the queries.
Next ==
    \/ Construct
    \/ FromSequence
    \/ FromSeries
    \/ GetNumCandidates
    \/ GetNumVoters
    \/ AbsoluteMajorityWinner
    \/ SuperMajorityWinner
    \/ PluralityWinner
    \/ PluralityWinners
    \/ Equal

Spec == Init /\ [][Next]_vars

\* The API together with a caller that goes on using the Counter it passed in.
NextAlias ==
    \/ Next
    \/ CallerSetItem
    \/ CallerDelItem

SpecAlias == Init /\ [][NextAlias]_vars

----------------------------------------------------------------------------
\* What the properties are stated with: the tally of the instance as a
\* mapping, independent of the order of its items.

Tally == vote._counter

CountOf(c) == GetItem(Tally, c)

RECURSIVE SumCounts(_)
SumCounts(S) ==
    IF S = {} THEN 0
    ELSE LET c == CHOOSE x \in S : TRUE IN CountOf(c) + SumCounts(S \ {c})

\* The sum of all counts of the tally.
Voters == SumCounts(Keys(Tally))

\* The candidates whose count is the maximum count of the tally.
Leaders == {c \in Keys(Tally) : \A d \in Keys(Tally) : CountOf(d) <= CountOf(c)}

\* The candidates whose count is strictly more than half of the voters.
MajorityHolders == {c \in Keys(Tally) : 2 * CountOf(c) > Voters}

Range(seq) == {seq[i] : i \in DOMAIN seq}

----------------------------------------------------------------------------
\* C1: with at least one voter, absolute_majority_winner() returns a candidate
\* exactly when some candidate's count is strictly more than half of the voters
\* (2 * count > total); the candidate returned is that one, which holds the
\* highest count; in every other case (a leader at exactly 50% included) it
\* raises WinnerNotFoundError.
C1_AbsoluteMajorityStrict ==
    (last.op = "absolute_majority_winner" /\ Voters >= 1) =>
        /\ (last.out.kind = "ok") <=> (MajorityHolders # {})
        /\ last.out.kind = "ok" =>
               /\ last.out.val \in MajorityHolders
               /\ last.out.val \in Leaders
        /\ last.out.kind # "ok" => last.out.kind = "WinnerNotFoundError"

\* A winner that was not inserted first, against two other candidates.
C1_Witness ==
    /\ last.op = "absolute_majority_winner"
    /\ Voters >= 1
    /\ last.out.kind = "ok"
    /\ Len(Tally) = 3
    /\ last.out.val # Tally[1][1]

\* C2 (as claimed): with zero voters, absolute_majority_winner() raises
\* WinnerNotFoundError and nothing else.
C2_ZeroVotersWinnerNotFound ==
    (last.op = "absolute_majority_winner" /\ Voters = 0) =>
        last.out.kind = "WinnerNotFoundError"

\* p/q <= 1/2
AtMostHalf(threshold) == 2 * threshold[1] <= threshold[2]

\* C3 (as claimed): super_majority_winner(threshold) raises ValueError for every
\* threshold <= 0.5 whatever the tally; for a threshold > 0.5 it returns the
\* leading candidate exactly when leading count / voters > threshold, and
\* raises WinnerNotFoundError otherwise.
C3_SuperMajority ==
    last.op = "super_majority_winner" =>
        LET threshold == last.arg
            clears == {c \in Leaders :
                          /\ Voters > 0
                          /\ CountOf(c) * threshold[2] > threshold[1] * Voters}
        IN IF AtMostHalf(threshold) THEN last.out.kind = "ValueError"
           ELSE IF clears # {}
                THEN last.out.kind = "ok" /\ last.out.val \in clears
           ELSE last.out.kind = "WinnerNotFoundError"

\* C4: plurality_winners() returns exactly the candidates holding the maximum
\* count, each once, in ascending lexicographic order; a tie does not make it
\* fail; with voters > 0 the result is non-empty.
C4_PluralityWinnersSortedLeaders ==
    last.op = "plurality_winners" =>
        /\ last.out.kind = "ok"
        /\ Range(last.out.val) = Leaders
        /\ Len(last.out.val) = Cardinality(Leaders)
        /\ \A i \in 1 .. Len(last.out.val) - 1 :
               LexLess(CodePoints[last.out.val[i]], CodePoints[last.out.val[i + 1]])
        /\ Voters > 0 => last.out.val # <<>>

\* A three-way tie among voters whose items were inserted in descending order.
C4_Witness ==
    /\ last.op = "plurality_winners"
    /\ Voters > 0
    /\ Len(last.out.val) = 3
    /\ Tally[1][1] = "b"
    /\ Tally[2][1] = "ab"

\* C5: with voters > 0, plurality_winner() succeeds exactly when
\* plurality_winners() has one element and returns that element; with two or
\* more it raises MultipleWinnersFoundError reporting the whole tied set, and
\* never returns one of the tied candidates.
C5_PluralityWinnerUniqueOrTie ==
    (last.op = "plurality_winner" /\ Voters > 0) =>
        LET winners == plurality_winners(vote)
        IN /\ winners.kind = "ok"
           /\ Range(winners.val) = Leaders
           /\ (last.out.kind = "ok") <=> (Cardinality(Leaders) = 1)
           /\ last.out.kind = "ok" => Leaders = {last.out.val}
           /\ Cardinality(Leaders) >= 2 =>
                  /\ last.out.kind = "MultipleWinnersFoundError"
                  /\ last.out.val = winners.val
                  /\ Range(last.out.val) = Leaders

\* A tie between two of three candidates.
C5_Witness ==
    /\ last.op = "plurality_winner"
    /\ Voters > 0
    /\ last.out.kind = "MultipleWinnersFoundError"
    /\ Len(last.out.val) = 2
    /\ Len(Tally) = 3

\* C6 (as claimed): with zero voters, plurality_winner() raises
\* WinnerNotFoundError: it neither returns a candidate nor reports a tie.
C6_ZeroVotersPluralityWinnerNotFound ==
    (last.op = "plurality_winner" /\ Voters = 0) =>
        last.out.kind = "WinnerNotFoundError"

\* C7: SingleMarkVote(counter) raises ValueError whenever a count is negative,
\* the error naming an offending candidate with its value, and whenever the
\* counter is empty; it succeeds otherwise; a failed construction leaves no
\* instance, so the tally of every instance is non-empty with counts >= 0.
C7_ConstructionValidates ==
    /\ IsVote(vote) =>
           /\ Tally # <<>>
           /\ \A i \in DOMAIN Tally : Tally[i][2] >= 0
    /\ last.op = "__init__" =>
           LET counter == last.arg
               negative == {i \in DOMAIN counter : counter[i][2] < 0}
           IN /\ negative # {} =>
                     /\ last.out.kind = "ValueError"
                     /\ last.out.val \in {counter[i] : i \in negative}
              /\ counter = <<>> => last.out.kind = "ValueError"
              /\ (negative = {} /\ counter # <<>>) =>
                     /\ last.out.kind = "ok"
                     /\ IsVote(vote)
                     /\ Tally = counter
              /\ last.out.kind # "ok" => ~IsVote(vote)

\* The counter of the unit test: a zero count, then a negative one, then more.
C7_Witness ==
    /\ last.op = "__init__"
    /\ Len(last.arg) = 3
    /\ last.arg[1][2] = 0
    /\ last.arg[2][2] < 0
    /\ last.out = Raise("ValueError", last.arg[2])
    /\ ~IsVote(vote)

\* C8: get_num_voters() is the sum of all counts and get_num_candidates() the
\* number of distinct keys, those with a count of 0 included; neither fails.
C8_NumVotersNumCandidates ==
    /\ last.op = "get_num_voters" =>
           last.out.kind = "ok" /\ last.out.val = SumCounts(Keys(Tally))
    /\ last.op = "get_num_candidates" =>
           last.out.kind = "ok" /\ last.out.val = Cardinality(Keys(Tally))

\* Three candidates, one of them with no vote.
C8_Witness ==
    /\ last.op = "get_num_candidates"
    /\ last.out.val = 3
    /\ \E c \in Keys(Tally) : CountOf(c) = 0
    /\ Voters > 0

\* The number of occurrences of a mark in a sequence of marks.
Occurrences(votes, c) == Cardinality({i \in DOMAIN votes : votes[i] = c})

\* The tally of a sequence of marks written down directly as a Counter, its
\* keys in ascending order.
RECURSIVE DirectTally(_, _)
DirectTally(votes, names) ==
    IF names = <<>> THEN <<>>
    ELSE (IF Head(names) \in Range(votes)
          THEN <<<<Head(names), Occurrences(votes, Head(names))>>>>
          ELSE <<>>)
         \o DirectTally(votes, Tail(names))

\* The sequences holding the same marks as votes in another order.
Reorderings(votes) ==
    {[i \in DOMAIN votes |-> votes[p[i]]] :
        p \in {q \in [DOMAIN votes -> DOMAIN votes] :
                  \A i, j \in DOMAIN votes : q[i] = q[j] => i = j}}

\* C9: from_sequence(votes) builds the tally mapping each distinct mark to its
\* number of occurrences: get_num_voters() is the length of votes, the result
\* equals the vote built directly from that tally, the order of the marks does
\* not matter, and from_series gives the same vote on the same marks.  (The
\* empty sequence gives the empty tally, which the constructor refuses.)
C9_FromSequenceCountsOccurrences ==
    last.op \in {"from_sequence", "from_series"} =>
        LET votes == last.arg
            direct == SingleMarkVote_init(DirectTally(votes, <<"a", "ab", "b">>))
            seq == from_sequence(votes)
            ser == from_series(SeriesOf(votes))
        IN /\ (last.out.kind = "ok") <=> (votes # <<>>)
           /\ (direct.kind = "ok") <=> (votes # <<>>)
           /\ last.out.kind = "ok" =>
                  /\ vote = last.out.val
                  /\ Keys(Tally) = Range(votes)
                  /\ \A c \in Candidates : CountOf(c) = Occurrences(votes, c)
                  /\ get_num_voters(vote) = Len(votes)
                  /\ equal(vote, direct.val)
                  /\ equal(direct.val, vote)
                  /\ \A w \in Reorderings(votes) :
                         /\ from_sequence(w).kind = "ok"
                         /\ equal(vote, from_sequence(w).val)
                  /\ seq.kind = "ok" /\ ser.kind = "ok"
                  /\ equal(seq.val, ser.val)
                  /\ equal(ser.val, seq.val)

\* Four marks over three candidates, the most frequent one not met first.
C9_Witness ==
    /\ last.op = "from_sequence"
    /\ last.out.kind = "ok"
    /\ Len(last.arg) = 4
    /\ Cardinality(Range(last.arg)) = 3
    /\ last.arg[1] = "b"
    /\ CountOf("a") = 2

\* C10 (as claimed): once constructed, the tally of a SingleMarkVote never
\* changes, whatever the queries run on it and whatever the caller does with
\* the mapping it passed to the constructor.
C10_TallyNeverChanges ==
    [][IsVote(vote) => (IsVote(vote') /\ vote'._counter = vote._counter)]_vars

----------------------------------------------------------------------------
(***************************************************************************)
(* votingsys: the ranked vote (votingsys.vote.rank).                       *)
(*                                                                         *)
(* A polars.DataFrame is modelled as a record [columns, rows]: the column  *)
(* names in column order, and the rows in row order, each row the tuple of *)
(* its cells in column order.  All the columns of the model hold integers  *)
(* (the dtype of a column is not modelled); a null cell, and the Python    *)
(* None, is the value Null, which no rank and no count of the model takes. *)
(* A RankedVote is the record [class, _ranking, _count_col] of its two     *)
(* fields.                                                                 *)
(***************************************************************************)

\* Bounds of the ranked model: the rows of a counted table, the largest count.
MaxRows == 2
MaxWeight == 2

\* Count values a caller may put in the count column (a negative one included).
Weights == (0 - 1) .. MaxWeight

\* None, and the null cell of a DataFrame.
Null == 0 - 9

----------------------------------------------------------------------------
\* polars.DataFrame.

\* col in frame
HasColumn(frame, col) == \E i \in DOMAIN frame.columns : frame.columns[i] = col

\* Position of a column that the frame holds.
ColumnIndex(frame, col) == CHOOSE i \in DOMAIN frame.columns : frame.columns[i] = col

\* frame[col]: the cells of a column, in row order.
Column(frame, col) ==
    [r \in DOMAIN frame.rows |-> frame.rows[r][ColumnIndex(frame, col)]]

\* A sequence without its i-th element.
Drop(seq, i) == [j \in 1 .. Len(seq) - 1 |-> IF j < i THEN seq[j] ELSE seq[j + 1]]

\* [col for col in frame.columns if col != col0], for a column the frame holds.
OtherColumns(frame, col0) == Drop(frame.columns, ColumnIndex(frame, col0))

\* Series.sum() that stops after the first element.
SeqSum_first(seq) == IF seq = <<>> THEN 0 ELSE Head(seq)

\* Series.sum() of an integer column: 0 for a column without rows.
RECURSIVE SeqSum(_)
SeqSum(seq) == IF seq = <<>> THEN 0 ELSE Head(seq) + SeqSum(Tail(seq))

\* frame.shape[1]
Width(frame) == Len(frame.columns)

\* coola.objects_are_equal on two DataFrames (polars.testing.assert_frame_equal):
\* same column names in the same order, same rows in the same order.
FrameEqual(f1, f2) == f1.columns = f2.columns /\ f1.rows = f2.rows

\* Tuple comparison k1 > k2 of two sort keys of the same length.
RECURSIVE KeyGreater(_, _)
KeyGreater(k1, k2) ==
    IF k1 = <<>> THEN FALSE
    ELSE IF Head(k1) # Head(k2) THEN Head(k1) > Head(k2)
    ELSE KeyGreater(Tail(k1), Tail(k2))

\* The sort key of a row: its cells in the columns `by`, in that order.
SortKey(frame, by, row) == [i \in DOMAIN by |-> row[ColumnIndex(frame, by[i])]]

\* Insertion of a row in rows sorted descending, after the rows not smaller.
RECURSIVE InsertDescending(_, _, _, _)
InsertDescending(frame, by, row, rows) ==
    IF rows = <<>> THEN <<row>>
    ELSE IF KeyGreater(SortKey(frame, by, row), SortKey(frame, by, Head(rows)))
         THEN <<row>> \o rows
    ELSE <<Head(rows)>> \o InsertDescending(frame, by, row, Tail(rows))

RECURSIVE SortRowsDescending(_, _, _)
SortRowsDescending(frame, by, rows) ==
    IF rows = <<>> THEN <<>>
    ELSE InsertDescending(frame, by, rows[Len(rows)],
                          SortRowsDescending(frame, by, SubSeq(rows, 1, Len(rows) - 1)))

\* DataFrame.sort that leaves the rows where they are.
sort_descending_keep(frame, by) == frame

\* DataFrame.sort that orders by the first key column only.
sort_descending_first(frame, by) ==
    [columns |-> frame.columns,
     rows |-> SortRowsDescending(frame, <<by[1]>>, frame.rows)]

\* frame.sort(by=by, descending=True): rows in descending order of the tuple
\* of their cells in the columns `by`.
sort_descending(frame, by) ==
    [columns |-> frame.columns,
     rows |-> SortRowsDescending(frame, by, frame.rows)]

----------------------------------------------------------------------------
\* votingsys.utils.dataframe.

\* check_column_exist that accepts every frame.
check_column_exist_any(frame, col) == Ok("None")

\* check_column_exist: the message names the column and the sorted columns.
check_column_exist(frame, col) ==
    IF ~HasColumn(frame, col)
    THEN Raise("ValueError", [missing |-> col, columns |-> sorted(frame.columns)])
    ELSE Ok("None")

\* check_column_missing: the message names the column and the sorted columns.
check_column_missing(frame, col) ==
    IF HasColumn(frame, col)
    THEN Raise("ValueError", [exists |-> col, columns |-> sorted(frame.columns)])
    ELSE Ok("None")

\* (pl.col(col) == value) & pl.col(col).is_not_null(), on row r.
Matches(frame, r, col, value) ==
    /\ frame.rows[r][ColumnIndex(frame, col)] # Null
    /\ frame.rows[r][ColumnIndex(frame, col)] = value

\* Sum of the weights of the rows whose cell in `col` equals `value`; a null
\* cell never does.
WeightedCount(frame, col, value, weight_col) ==
    SeqSum([r \in DOMAIN frame.rows |->
               IF Matches(frame, r, col, value)
               THEN frame.rows[r][ColumnIndex(frame, weight_col)]
               ELSE 0])

\* count_value_per_column that takes None as a value like another.
count_value_per_column_unchecked(frame, value) ==
    Ok([i \in DOMAIN frame.columns |->
           <<frame.columns[i],
             Cardinality({r \in DOMAIN frame.rows :
                             frame.rows[r][i] = value})>>])

\* count_value_per_column: ValueError for the value None; else a dict, in
\* column order, from each column to the number of its cells that are not
\* null and equal `value`.
count_value_per_column(frame, value) ==
    IF value = Null THEN Raise("ValueError", "value cannot be None")
    ELSE Ok([i \in DOMAIN frame.columns |->
                <<frame.columns[i],
                  SeqSum([r \in DOMAIN frame.rows |->
                             IF Matches(frame, r, frame.columns[i], value)
                             THEN 1 ELSE 0])>>])

\* weighted_value_count: a dict, in column order, from each column other
\* than weight_col to the sum of the weights of the rows where the column
\* equals `value`; ValueError when weight_col is not a column.
weighted_value_count(frame, value, weight_col) ==
    LET chk == check_column_exist(frame, weight_col)
    IN IF chk.kind # "ok" THEN chk
       ELSE LET cols == OtherColumns(frame, weight_col)
            IN Ok([i \in DOMAIN cols |->
                      <<cols[i], WeightedCount(frame, cols[i], value, weight_col)>>])

\* The distinct elements of a sequence, in order of first occurrence.
RECURSIVE Distinct(_)
Distinct(seq) ==
    IF seq = <<>> THEN <<>>
    ELSE LET d == Distinct(SubSeq(seq, 1, Len(seq) - 1))
             e == seq[Len(seq)]
         IN IF \E i \in DOMAIN d : d[i] = e THEN d ELSE Append(d, e)

\* The ranking pattern of a row: its cells in the columns other than weight_col.
Pattern(frame, weight_col, row) == Drop(row, ColumnIndex(frame, weight_col))

\* The groups of a group-by on every column except weight_col: the distinct
\* patterns, in order of first occurrence.
GroupKeys(frame, weight_col) ==
    Distinct([r \in DOMAIN frame.rows |-> Pattern(frame, weight_col, frame.rows[r])])

\* The orders in which a group-by may give n groups back (polars leaves the
\* order of the groups unspecified): the permutations of 1 .. n.
GroupOrders(n) ==
    {order \in [1 .. n -> 1 .. n] :
        \A i, j \in 1 .. n : order[i] = order[j] => i = j}

\* Sum of the weights of the rows of a pattern.
GroupWeight(frame, weight_col, key) ==
    SeqSum([r \in DOMAIN frame.rows |->
               IF Pattern(frame, weight_col, frame.rows[r]) = key
               THEN frame.rows[r][ColumnIndex(frame, weight_col)]
               ELSE 0])

\* sum_weights_by_group: one row per distinct pattern, holding the sum of
\* the weights of the rows of that pattern; the grouping columns keep their
\* order and the weight column comes last.  `order` is the order in which
\* the group-by gives the groups back.
sum_weights_by_group(frame, weight_col, order) ==
    LET keys == GroupKeys(frame, weight_col)
    IN [columns |-> Append(OtherColumns(frame, weight_col), weight_col),
        rows |-> [i \in DOMAIN keys |->
                     Append(keys[order[i]],
                            GroupWeight(frame, weight_col, keys[order[i]]))]]

\* remove_zero_weight_rows: the rows whose weight is not exactly zero.
remove_zero_weight_rows(frame, weight_col) ==
    [columns |-> frame.columns,
     rows |-> SelectSeq(frame.rows,
                        LAMBDA row : row[ColumnIndex(frame, weight_col)] # 0)]

\* find_max_in_mapping (votingsys.utils.mapping): the keys holding the
\* maximum value, sorted ascending, and that value.  An empty mapping has no
\* maximum to return: the call fails with ValueError, as max() does on the
\* empty tally in SingleMarkVote.plurality_winners.
find_max_in_mapping(mapping) ==
    IF mapping = <<>> THEN Raise("ValueError", "empty mapping")
    ELSE LET max_value == MaxValue(mapping)
         IN Ok(<<sorted(MaxCandidates(mapping, max_value)), max_value>>)

\* The identity order of n groups (order of first occurrence).
FirstOccurrence(n) == [i \in 1 .. n |-> i]

\* compute_count_aggregated_dataframe (votingsys.data.aggregation): refuses a
\* count_col that is already a column; gives one row per distinct row of the
\* frame with, in the new column count_col, the number of its occurrences
\* (every row weighs 1).
compute_count_aggregated_dataframe(frame, count_col) ==
    LET chk == check_column_missing(frame, count_col)
    IN IF chk.kind # "ok" THEN chk
       ELSE LET ones == [columns |-> Append(frame.columns, count_col),
                         rows |-> [r \in DOMAIN frame.rows |-> Append(frame.rows[r], 1)]]
            IN Ok(sum_weights_by_group(
                      ones, count_col,
                      FirstOccurrence(Len(GroupKeys(ones, count_col)))))

----------------------------------------------------------------------------
\* RankedVote.

\* RankedVote(ranking, count_col): the table is stored as given.
RankedVote_init(ranking, count_col) ==
    LET chk == check_column_exist(ranking, count_col)
    IN IF chk.kind # "ok" THEN chk
       ELSE Ok([class |-> "RankedVote", _ranking |-> ranking, _count_col |-> count_col])

\* RankedVote.ranking: the table of the vote, the object itself.
RankedVote_ranking(self) == self._ranking

\* RankedVote.equal: False for a value of another class, else the equality
\* of the two tables.
RankedVote_equal(self, other) ==
    IF other.class # self.class THEN FALSE
    ELSE FrameEqual(self._ranking, other._ranking)

\* get_num_candidates that counts every column.
RankedVote_get_num_candidates_all(self) == Width(self._ranking)

RankedVote_get_num_candidates(self) == Width(self._ranking) - 1

\* get_num_voters that counts the rows of the table.
RankedVote_get_num_voters_rows(self) == Ok(Len(self._ranking.rows))

\* get_num_voters: the sum of the count column; reading a column that the
\* table does not hold raises polars' ColumnNotFoundError.
RankedVote_get_num_voters(self) ==
    IF ~HasColumn(self._ranking, self._count_col)
    THEN Raise("ColumnNotFoundError", self._count_col)
    ELSE Ok(SeqSum(Column(self._ranking, self._count_col)))

\* absolute_majority_winner with >= in place of >.
RankedVote_absolute_majority_winner_ge(self) ==
    LET counts == weighted_value_count(self._ranking, 0, self._count_col)
    IN IF counts.kind # "ok" THEN counts
       ELSE LET found == find_max_in_mapping(counts.val)
                total_votes == RankedVote_get_num_voters(self).val
            IN IF found.kind # "ok" THEN found
               ELSE IF total_votes = 0 THEN Raise("ZeroDivisionError", "division by zero")
               ELSE IF 2 * found.val[2] >= total_votes /\ total_votes > 0
                    THEN Ok(found.val[1][1])
               ELSE Raise("WinnerNotFoundError", "absolute majority")

RankedVote_absolute_majority_winner(self) ==
    LET counts == weighted_value_count(self._ranking, 0, self._count_col)
    IN IF counts.kind # "ok" THEN counts
       ELSE LET found == find_max_in_mapping(counts.val)
                candidates == found.val[1]
                max_votes == found.val[2]
                total_votes == RankedVote_get_num_voters(self).val
            IN IF found.kind # "ok" THEN found
               ELSE IF total_votes = 0 THEN Raise("ZeroDivisionError", "division by zero")
               ELSE IF TrueDivGreater(max_votes, total_votes, 1, 2)
                    THEN Ok(candidates[1])
               ELSE Raise("WinnerNotFoundError", "absolute majority")

RankedVote_plurality_winners(self) ==
    LET counts == weighted_value_count(self._ranking, 0, self._count_col)
    IN IF counts.kind # "ok" THEN counts
       ELSE LET found == find_max_in_mapping(counts.val)
            IN IF found.kind # "ok" THEN found
               ELSE Ok(sorted(found.val[1]))

\* plurality_winner that returns the first of the tied candidates.
RankedVote_plurality_winner_first(self) ==
    LET winners == RankedVote_plurality_winners(self)
    IN IF winners.kind # "ok" THEN winners ELSE Ok(winners.val[1])

RankedVote_plurality_winner(self) ==
    LET winners == RankedVote_plurality_winners(self)
    IN IF winners.kind # "ok" THEN winners
       ELSE IF Len(winners.val) > 1
            THEN Raise("MultipleWinnersFoundError", winners.val)
       ELSE Ok(winners.val[1])

\* from_dataframe_with_count that keeps the patterns whose counts sum to zero.
from_dataframe_with_count_keep_zero(ranking, count_col, order) ==
    LET cols == <<count_col>> \o sorted(OtherColumns(ranking, count_col))
    IN RankedVote_init(
           sort_descending(sum_weights_by_group(ranking, count_col, order), cols),
           count_col)

\* RankedVote.from_dataframe_with_count of a table holding count_col: the
\* counts summed per pattern, the zero sums removed, the rows sorted
\* descending by the count and then by the candidate columns in sorted name
\* order.  `order` is the order in which the group-by gives the groups back.
from_dataframe_with_count(ranking, count_col, order) ==
    LET cols == <<count_col>> \o sorted(OtherColumns(ranking, count_col))
    IN RankedVote_init(
           sort_descending(
               remove_zero_weight_rows(
                   sum_weights_by_group(ranking, count_col, order), count_col),
               cols),
           count_col)

\* from_dataframe that gives every row of the raw table the count 1 and
\* builds the vote on that table as it is.
from_dataframe_ungrouped(ranking, count_col, order) ==
    LET chk == check_column_missing(ranking, count_col)
    IN IF chk.kind # "ok" THEN chk
       ELSE RankedVote_init(
                [columns |-> Append(ranking.columns, count_col),
                 rows |-> [r \in DOMAIN ranking.rows |-> Append(ranking.rows[r], 1)]],
                count_col)

\* RankedVote.from_dataframe: the raw table aggregated, then compacted by
\* from_dataframe_with_count.
from_dataframe(ranking, count_col, order) ==
    LET aggregated == compute_count_aggregated_dataframe(ranking, count_col)
    IN IF aggregated.kind # "ok" THEN aggregated
       ELSE from_dataframe_with_count(aggregated.val, count_col, order)

----------------------------------------------------------------------------
\* The tables the ranked model is run on.

\* Column layouts of a table with counts: two candidates in sorted and in
\* unsorted name order, and a single candidate.
CountedLayouts == {<<"a", "b", "count">>, <<"b", "ab", "count">>, <<"a", "count">>}

\* Column layouts of a raw table, one row per voter.
RawLayouts == {<<"a", "b">>, <<"b", "ab">>}

\* Every row of n rank cells in 0 .. n-1, rows that are no permutation
\* included (the code does not look at the ranks of a row together).
RankRows(n) == [1 .. n -> 0 .. n - 1]

\* Every table of the layout cols, the count column last, of at most MaxRows
\* rows with a count in Weights on each row.
FramesOf(cols) ==
    {[columns |-> cols, rows |-> rows] :
        rows \in UNION {[1 .. k -> {Append(ranks, w) :
                                      ranks \in RankRows(Len(cols) - 1),
                                      w \in Weights}] :
                           k \in 0 .. MaxRows}}

\* The tables with counts and at least one candidate column.
CountedFrames == UNION {FramesOf(cols) : cols \in CountedLayouts}

\* The tables that hold the count column and no candidate column: the
\* constructor takes them as any other table.
CountOnlyFrames == FramesOf(<<"count">>)

\* Every raw table of at most MaxLen voters.
RawFrames ==
    UNION {{[columns |-> cols, rows |-> rows] :
               rows \in UNION {[1 .. k -> RankRows(Len(cols))] : k \in 0 .. MaxLen}} :
              cols \in RawLayouts}

\* The count_col arguments of the constructor: the default one and the one
\* of test_ranked_vote_init_missing_count_col.
CountCols == {"count", "missing"}

\* The count_col arguments of from_dataframe: the default one and the name
\* of a candidate column of every raw table.
RawCountCols == {"count", "b"}

IsRanked(v) == v.class = "RankedVote"

\* The rows of a frame in reverse order.
ReverseRows(frame) ==
    [columns |-> frame.columns,
     rows |-> [r \in DOMAIN frame.rows |-> frame.rows[Len(frame.rows) + 1 - r]]]

\* frame.rename({old: new})
Rename(frame, old, new) ==
    [columns |-> [i \in DOMAIN frame.columns |->
                     IF frame.columns[i] = old THEN new ELSE frame.columns[i]],
     rows |-> frame.rows]

\* The arguments RankedVote.equal is called with: a value of another type, a
\* vote on the same table object for each of its columns taken as the count
\* column, a vote on the same rows in reverse order, and a vote on the same
\* table with the count column renamed.
RankedOthers(self) ==
    {NotAVote}
    \cup {[class |-> "RankedVote", _ranking |-> self._ranking,
           _count_col |-> self._ranking.columns[i]] :
             i \in DOMAIN self._ranking.columns}
    \cup {[class |-> "RankedVote", _ranking |-> ReverseRows(self._ranking),
           _count_col |-> self._count_col]}
    \cup {[class |-> "RankedVote",
           _ranking |-> Rename(self._ranking, self._count_col, "#n"),
           _count_col |-> "#n"]}

----------------------------------------------------------------------------
\* The state machine of the ranked vote.  vote is the RankedVote under
\* observation, built by the one constructor call of a behaviour (its
\* _ranking field is the DataFrame object the instance refers to); aliased
\* tells whether the caller holds a reference to that same DataFrame object:
\* it passed it to __init__, which stores it without a copy, or it read the
\* property ranking, which returns it without a copy; last is the last call
\* and its outcome.

\* No constructor was called yet.
Fresh == vote = NoVote /\ last.op = "none"

\* RankedVote(ranking, count_col)
RankedConstruct ==
    /\ Fresh
    /\ \E ranking \in CountedFrames \cup CountOnlyFrames \cup RawFrames,
          count_col \in CountCols :
           LET out == RankedVote_init(ranking, count_col)
           IN /\ last' = Call("RankedVote", [ranking |-> ranking, count_col |-> count_col], out)
              /\ Constructed(out, TRUE)

\* RankedVote.from_dataframe(ranking, count_col)
RankedFromDataframe ==
    /\ Fresh
    /\ \E ranking \in RawFrames, count_col \in RawCountCols :
           \E order \in GroupOrders(Len(Distinct(ranking.rows))) :
               LET out == from_dataframe(ranking, count_col, order)
               IN /\ last' = Call("from_dataframe",
                                  [ranking |-> ranking, count_col |-> count_col], out)
                  /\ Constructed(out, FALSE)

\* RankedVote.from_dataframe_with_count(ranking, count_col="count")
RankedFromDataframeWithCount ==
    /\ Fresh
    /\ \E ranking \in CountedFrames :
           \E order \in GroupOrders(Len(GroupKeys(ranking, "count"))) :
               LET out == from_dataframe_with_count(ranking, "count", order)
               IN /\ last' = Call("from_dataframe_with_count",
                                  [ranking |-> ranking, count_col |-> "count"], out)
                  /\ Constructed(out, FALSE)

\* RankedVote.ranking: the caller receives the table object of the vote.
RankedRanking ==
    /\ IsRanked(vote)
    /\ last' = Call("ranking", "none", Ok(RankedVote_ranking(vote)))
    /\ aliased' = TRUE
    /\ UNCHANGED vote

RankedGetNumCandidates ==
    /\ IsRanked(vote)
    /\ last' = Call("get_num_candidates", "none", Ok(RankedVote_get_num_candidates(vote)))
    /\ UNCHANGED <<vote, aliased>>

RankedGetNumVoters ==
    /\ IsRanked(vote)
    /\ last' = Call("get_num_voters", "none", RankedVote_get_num_voters(vote))
    /\ UNCHANGED <<vote, aliased>>

RankedAbsoluteMajorityWinner ==
    /\ IsRanked(vote)
    /\ last' = Call("absolute_majority_winner", "none",
                    RankedVote_absolute_majority_winner(vote))
    /\ UNCHANGED <<vote, aliased>>

RankedPluralityWinner ==
    /\ IsRanked(vote)
    /\ last' = Call("plurality_winner", "none", RankedVote_plurality_winner(vote))
    /\ UNCHANGED <<vote, aliased>>

RankedPluralityWinners ==
    /\ IsRanked(vote)
    /\ last' = Call("plurality_winners", "none", RankedVote_plurality_winners(vote))
    /\ UNCHANGED <<vote, aliased>>

RankedEqual ==
    /\ IsRanked(vote)
    /\ \E other \in RankedOthers(vote) :
           last' = Call("equal", other, Ok(RankedVote_equal(vote, other)))
    /\ UNCHANGED <<vote, aliased>>

\* The caller, holding the table of the vote, runs table[r, count_col] = w
\* (DataFrame.__setitem__ writes the table in place).
CallerSetCount ==
    /\ IsRanked(vote)
    /\ aliased
    /\ HasColumn(vote._ranking, vote._count_col)
    /\ \E r \in DOMAIN vote._ranking.rows, w \in Weights :
           vote' = [vote EXCEPT !._ranking.rows[r][ColumnIndex(vote._ranking, vote._count_col)] = w]
    /\ last' = Call("caller_setitem", "none", Ok("None"))
    /\ UNCHANGED aliased

\* The caller, holding the table of the vote, runs table.extend(row) with a
\* table of one row of the same columns (DataFrame.extend appends in place),
\* on a table of less than MaxRows rows.  The count column, where the table
\* holds it, is the last column; a table without columns has no rows, and
\* extending it by such a table leaves it as it is.
CallerExtend ==
    /\ IsRanked(vote)
    /\ aliased
    /\ Len(vote._ranking.rows) < MaxRows
    /\ IF HasColumn(vote._ranking, vote._count_col)
       THEN \E ranks \in RankRows(Width(vote._ranking) - 1), w \in Weights :
                vote' = [vote EXCEPT !._ranking.rows = Append(@, Append(ranks, w))]
       ELSE IF Width(vote._ranking) = 0
       THEN UNCHANGED vote
       ELSE \E ranks \in RankRows(Width(vote._ranking)) :
                vote' = [vote EXCEPT !._ranking.rows = Append(@, ranks)]
    /\ last' = Call("caller_extend", "none", Ok("None"))
    /\ UNCHANGED aliased

\* DataFrame.drop_in_place(name): the column leaves the table, in place; a
\* table left without columns has no rows.
drop_in_place(frame, name) ==
    LET i == ColumnIndex(frame, name)
    IN [columns |-> Drop(frame.columns, i),
        rows |-> IF Len(frame.columns) = 1 THEN <<>>
                 ELSE [r \in DOMAIN frame.rows |-> Drop(frame.rows[r], i)]]

\* The caller, holding the table of the vote, runs table.drop_in_place(name)
\* on any one of its columns: the count column, a candidate column, the last
\* column.
CallerDropInPlace ==
    /\ IsRanked(vote)
    /\ aliased
    /\ \E i \in DOMAIN vote._ranking.columns :
           vote' = [vote EXCEPT !._ranking = drop_in_place(@, vote._ranking.columns[i])]
    /\ last' = Call("caller_drop_in_place", "none", Ok("None"))
    /\ UNCHANGED aliased

NextRanked ==
    \/ RankedConstruct
    \/ RankedFromDataframe
    \/ RankedFromDataframeWithCount
    \/ RankedRanking
    \/ RankedGetNumCandidates
    \/ RankedGetNumVoters
    \/ RankedAbsoluteMajorityWinner
    \/ RankedPluralityWinner
    \/ RankedPluralityWinners
    \/ RankedEqual

SpecRanked == Init /\ [][NextRanked]_vars

\* The ranked vote with a caller that keeps writing the table it shares with
\* the vote.
NextRankedAlias ==
    \/ NextRanked
    \/ CallerSetCount
    \/ CallerExtend
    \/ CallerDropInPlace

SpecRankedAlias == Init /\ [][NextRankedAlias]_vars

----------------------------------------------------------------------------
\* Properties of the ranked vote, on the votes the constructor and the
\* factories build (SpecRanked).

\* The table and the count column of the vote under observation.
Ranking == vote._ranking
CountCol == vote._count_col

\* The candidates of the vote: its columns other than the count column.
RankedCandidates ==
    {Ranking.columns[i] : i \in DOMAIN Ranking.columns} \ {CountCol}

\* The cell of row r of a frame in column col, and the sum of the cells of
\* that column over a set S of rows.
Cell(frame, r, col) == frame.rows[r][ColumnIndex(frame, col)]

RECURSIVE SumCells(_, _, _)
SumCells(frame, col, S) ==
    IF S = {} THEN 0
    ELSE LET r == CHOOSE x \in S : TRUE
         IN Cell(frame, r, col) + SumCells(frame, col, S \ {r})

\* The count of a row of the vote, and the sum of the counts of a set of rows.
RowCount(r) == Cell(Ranking, r, CountCol)

SumRowCounts(S) == SumCells(Ranking, CountCol, S)

RankedVoters == SumRowCounts(DOMAIN Ranking.rows)

\* The rows that rank candidate c at position 0, and the sum of their counts.
FirstRows(c) ==
    {r \in DOMAIN Ranking.rows : Cell(Ranking, r, c) = 0}

FirstTotal(c) == SumRowCounts(FirstRows(c))

\* The candidates holding the maximum of the rank-0 totals.
FirstLeaders ==
    {c \in RankedCandidates : \A d \in RankedCandidates : FirstTotal(d) <= FirstTotal(c)}

\* C11: RankedVote(ranking, count_col) raises ValueError when ranking has no
\* column count_col, and from_dataframe(ranking, count_col) raises ValueError
\* when count_col is already a column of the raw table; in both cases no
\* instance exists after the call.
C11_CountColumnValidated ==
    /\ (last.op = "RankedVote" /\ ~HasColumn(last.arg.ranking, last.arg.count_col))
           => (last.out.kind = "ValueError" /\ ~IsRanked(vote))
    /\ (last.op = "from_dataframe" /\ HasColumn(last.arg.ranking, last.arg.count_col))
           => (last.out.kind = "ValueError" /\ ~IsRanked(vote))

\* A direct construction on a two-row table without the count column failed.
C11_Witness ==
    /\ last.op = "RankedVote"
    /\ last.arg.count_col = "count"
    /\ last.arg.ranking.columns = <<"b", "ab">>
    /\ Len(last.arg.ranking.rows) = 2
    /\ last.out.kind = "ValueError"
    /\ vote = NoVote

\* C12: on every constructed ranked vote, get_num_candidates() is the number
\* of columns of the table other than the count column (0 for a table that
\* holds the count column only), and get_num_voters() is the sum of the count
\* column over the rows (0 for a table without rows).
C12_RankedNumCandidatesNumVoters ==
    /\ last.op = "get_num_candidates"
           => last.out = Ok(Cardinality(RankedCandidates))
    /\ last.op = "get_num_voters"
           => /\ last.out = Ok(RankedVoters)
              /\ Ranking.rows = <<>> => last.out = Ok(0)

\* get_num_candidates gave 2 on a table of two rows and three columns.
C12_Witness ==
    /\ last.op = "get_num_candidates"
    /\ last.out = Ok(2)
    /\ Len(Ranking.rows) = 2
    /\ RankedVoters = 3

C13_Witness ==
    /\ last.op = "absolute_majority_winner"
    /\ RankedVoters > 0
    /\ FirstLeaders = {"ab", "b"}
    /\ last.out = Ok("ab")

\* The tally of the first preferences as SingleMarkVote holds it: each
\* candidate with its rank-0 total, the candidates listed in the order `keys`.
FirstTally(keys) ==
    [class |-> "SingleMarkVote",
     _counter |-> [i \in DOMAIN keys |-> <<keys[i], FirstTotal(keys[i])>>]]

\* The orders in which the candidates of the vote can be listed.
CandidateOrders == {keys \in KeyOrders : Range(keys) = RankedCandidates}

\* Two calls end the same way: the same value returned, or an exception of
\* the same kind, carrying the same tied candidates when it reports a tie.
SameOutcome(x, y) ==
    /\ x.kind = y.kind
    /\ x.kind \in {"ok", "MultipleWinnersFoundError"} => x.val = y.val

Built(op) == last.op = op /\ last.out.kind = "ok"

\* The table handed to the last constructor call.
Given == last.arg.ranking

\* The ranking pattern of row r of the vote.
RowPattern(r) == Pattern(Ranking, CountCol, Ranking.rows[r])

\* C15: from_dataframe on a raw table without the count column builds a vote
\* with one row per distinct row of the raw table, whose count is the number
\* of raw rows equal to it; get_num_voters() is the number of raw rows and
\* get_num_candidates() the number of raw columns.
C15_FromDataframeCountsPatterns ==
    (last.op = "from_dataframe" /\ ~HasColumn(Given, last.arg.count_col))
        => /\ last.out.kind = "ok"
           /\ vote = last.out.val
           /\ OtherColumns(Ranking, CountCol) = Given.columns
           /\ \A r \in DOMAIN Ranking.rows :
                  RowCount(r) =
                      Cardinality({i \in DOMAIN Given.rows : Given.rows[i] = RowPattern(r)})
           /\ \A i \in DOMAIN Given.rows :
                  Cardinality({r \in DOMAIN Ranking.rows : RowPattern(r) = Given.rows[i]}) = 1
           /\ RankedVote_get_num_voters(vote) = Ok(Len(Given.rows))
           /\ RankedVote_get_num_candidates(vote) = Len(Given.columns)

\* Four voters with two distinct rankings gave a vote of two rows, with the
\* counts 3 and 1.
C15_Witness ==
    /\ Built("from_dataframe")
    /\ Given.columns = <<"b", "ab">>
    /\ Given.rows = <<<<0, 1>>, <<1, 0>>, <<0, 1>>, <<0, 1>>>>
    /\ Len(Ranking.rows) = 2
    /\ RowCount(1) = 3
    /\ RowCount(2) = 1

\* The rows of the given table that hold a pattern, and the sum of their counts.
GivenRows(pattern) ==
    {i \in DOMAIN Given.rows : Pattern(Given, last.arg.count_col, Given.rows[i]) = pattern}

GivenTotal(pattern) == SumCells(Given, last.arg.count_col, GivenRows(pattern))

\* C16: in the table built by from_dataframe_with_count no two rows hold the
\* same pattern, the count of a row is the sum of the counts of the given rows
\* of its pattern, a pattern whose counts sum to exactly zero has no row,
\* every pattern whose counts sum to another value has one, and the counts
\* sum to what they sum to in the given table.
C16_WithCountSumsPatterns ==
    last.op = "from_dataframe_with_count"
        => /\ last.out.kind = "ok"
           /\ vote = last.out.val
           /\ OtherColumns(Ranking, CountCol) = OtherColumns(Given, last.arg.count_col)
           /\ \A r1, r2 \in DOMAIN Ranking.rows : RowPattern(r1) = RowPattern(r2) => r1 = r2
           /\ \A r \in DOMAIN Ranking.rows :
                  /\ RowCount(r) = GivenTotal(RowPattern(r))
                  /\ RowCount(r) # 0
           /\ \A i \in DOMAIN Given.rows :
                  LET pattern == Pattern(Given, last.arg.count_col, Given.rows[i])
                  IN GivenTotal(pattern) # 0
                         => \E r \in DOMAIN Ranking.rows : RowPattern(r) = pattern
           /\ RankedVoters = SumCells(Given, last.arg.count_col, DOMAIN Given.rows)

\* Two given rows of the same pattern, with the counts 1 and 2, became one
\* row with the count 3.
C16_Witness ==
    /\ Built("from_dataframe_with_count")
    /\ Given.columns = <<"a", "b", "count">>
    /\ Len(Given.rows) = 2
    /\ Given.rows[1] = <<1, 0, 1>>
    /\ Cell(Given, 2, "count") = 2
    /\ Len(Ranking.rows) = 1
    /\ RowCount(1) = 3

\* The candidate columns of the vote in sorted name order.
SortedCandidates ==
    CHOOSE keys \in CandidateOrders :
        \A i, j \in DOMAIN keys : i < j => StrLess(keys[i], keys[j])

\* The composite key of row r of the vote: its count, then its ranks in the
\* candidate columns taken in sorted name order.
CompositeKey(r) ==
    <<RowCount(r)>> \o [i \in DOMAIN SortedCandidates |-> Cell(Ranking, r, SortedCandidates[i])]

\* The given table with its rows i and i+1 exchanged.
SwapRows(frame, i) ==
    [columns |-> frame.columns,
     rows |-> [r \in DOMAIN frame.rows |->
                  IF r = i THEN frame.rows[i + 1]
                  ELSE IF r = i + 1 THEN frame.rows[i]
                  ELSE frame.rows[r]]]

\* The orders in which a group-by may give back the groups of a raw table
\* and of a table with counts.
RawGroupOrders(frame) == GroupOrders(Len(Distinct(frame.rows)))

CountedGroupOrders(frame, count_col) == GroupOrders(Len(GroupKeys(frame, count_col)))

\* C17: the rows of a table built by from_dataframe or from_dataframe_with_count
\* are in descending order of the composite key (count first, then the
\* candidate columns in sorted name order), and the same given rows in another
\* row order build an equal vote (an exchange of two neighbouring given rows,
\* which generates every row order, changes nothing, whatever the order the
\* group-by gives the groups in).
C17_FactoriesSortDeterministically ==
    /\ (Built("from_dataframe") \/ Built("from_dataframe_with_count"))
           => \A r1, r2 \in DOMAIN Ranking.rows :
                  r1 < r2 => ~KeyGreater(CompositeKey(r2), CompositeKey(r1))
    /\ Built("from_dataframe")
           => \A i \in 1 .. Len(Given.rows) - 1 :
                  \A order \in RawGroupOrders(Given) :
                      LET other == from_dataframe(SwapRows(Given, i), last.arg.count_col, order)
                      IN other.kind = "ok" /\ RankedVote_equal(vote, other.val)
    /\ Built("from_dataframe_with_count")
           => \A i \in 1 .. Len(Given.rows) - 1 :
                  \A order \in CountedGroupOrders(Given, last.arg.count_col) :
                      LET other == from_dataframe_with_count(
                                       SwapRows(Given, i), last.arg.count_col, order)
                      IN other.kind = "ok" /\ RankedVote_equal(vote, other.val)

\* Two given rows with the same count came out in the other order: the row
\* ranking "ab" (the first name in sorted order, the second column) at 1 first.
C17_Witness ==
    /\ Built("from_dataframe_with_count")
    /\ Given.columns = <<"b", "ab", "count">>
    /\ Given.rows = <<<<1, 0, 2>>, <<0, 1, 2>>>>
    /\ Ranking.rows = <<<<0, 1, 2>>, <<1, 0, 2>>>>

\* C18: compaction is idempotent: from_dataframe_with_count on the table of
\* a vote built by from_dataframe or by from_dataframe_with_count builds a
\* vote equal to it, whatever the order the group-by gives the groups in.
C18_CompactionIdempotent ==
    (Built("from_dataframe") \/ Built("from_dataframe_with_count"))
        => \A order \in CountedGroupOrders(Ranking, CountCol) :
               LET again == from_dataframe_with_count(Ranking, CountCol, order)
               IN /\ again.kind = "ok"
                  /\ RankedVote_equal(vote, again.val)
                  /\ RankedVote_equal(again.val, vote)

\* A vote of two rows built by from_dataframe from three voters.
C18_Witness ==
    /\ Built("from_dataframe")
    /\ Len(Given.rows) = 3
    /\ Len(Ranking.rows) = 2
    /\ Ranking.columns = <<"a", "b", "count">>
    /\ RowPattern(1) = <<1, 0>>
    /\ RowPattern(2) = <<0, 1>>

\* C19 (as claimed): equal(other) is True exactly when other is a RankedVote
\* whose table equals the table of the vote, column names, row order and
\* counts included, and whose count column has the same name; a vote on the
\* same rows in another order, a vote with another count column name and a
\* value of another type are never equal to the vote.
C19_EqualSameTableAndCountColumn ==
    last.op = "equal"
        => (last.out.val <=> (/\ IsRanked(last.arg)
                              /\ last.arg._ranking.columns = Ranking.columns
                              /\ last.arg._ranking.rows = Ranking.rows
                              /\ last.arg._count_col = CountCol))

\* C20 (as claimed): every count of the table of a RankedVote that was
\* constructed, by the constructor or by a factory, is non-negative.
C20_CountsNonNegative ==
    IsRanked(vote) => \A r \in DOMAIN Ranking.rows : RowCount(r) >= 0

----------------------------------------------------------------------------
\* The helpers of votingsys.utils.dataframe, each applied once to a table.

\* The cells of a rank column: a rank or null.
RankCells == {Null, 0, 1}

\* The target values: the ranks, and a value that no cell holds.
TargetValues == {0, 1, 2}

\* The weights of the rows.
HelperWeights == {1, 2}

\* Column layouts: pl.DataFrame(), one and two rank columns with the weight
\* column, and two rank columns without it.
HelperLayouts == {<<>>, <<"a", "count">>, <<"a", "b", "count">>, <<"a", "b">>}

\* The rows of a layout: a rank or null in each rank column, a weight in
\* the column "count".
HelperRows(cols) ==
    {row \in [DOMAIN cols -> RankCells \cup HelperWeights] :
        \A i \in DOMAIN cols :
            IF cols[i] = "count" THEN row[i] \in HelperWeights ELSE row[i] \in RankCells}

\* Every table of at most MaxRows rows over a layout; a table without
\* columns has no rows.
HelperFrames ==
    UNION {{[columns |-> cols, rows |-> rows] :
               rows \in UNION {[1 .. k -> HelperRows(cols)] :
                                  k \in 0 .. (IF cols = <<>> THEN 0 ELSE MaxRows)}} :
              cols \in HelperLayouts}

\* weighted_value_count(frame, value, weight_col="count")
WeightedValueCount ==
    /\ Fresh
    /\ \E frame \in HelperFrames, value \in TargetValues :
           last' = Call("weighted_value_count",
                        [frame |-> frame, value |-> value, weight_col |-> "count"],
                        weighted_value_count(frame, value, "count"))
    /\ UNCHANGED <<vote, aliased>>

\* count_value_per_column(frame, value), the value None included
CountValuePerColumn ==
    /\ Fresh
    /\ \E frame \in HelperFrames, value \in TargetValues \cup {Null} :
           last' = Call("count_value_per_column",
                        [frame |-> frame, value |-> value],
                        count_value_per_column(frame, value))
    /\ UNCHANGED <<vote, aliased>>

NextFrame ==
    \/ WeightedValueCount
    \/ CountValuePerColumn

SpecFrame == Init /\ [][NextFrame]_vars

----------------------------------------------------------------------------
\* Properties of the helpers (checked under SpecFrame).

\* The table and the target value of the last call.
Frame == last.arg.frame
Target == last.arg.value

\* The rows of the table whose cell in a column is not null and is the target.
MatchingRows(col) ==
    {r \in DOMAIN Frame.rows : Cell(Frame, r, col) # Null /\ Cell(Frame, r, col) = Target}

\* The mapping returned holds exactly one entry for each column of cols.
OneEntryPer(mapping, cols) ==
    /\ Len(mapping) = Cardinality(cols)
    /\ {mapping[i][1] : i \in DOMAIN mapping} = cols

\* C21: weighted_value_count raises ValueError when weight_col is not a
\* column (the table without columns included); else it returns a mapping
\* with exactly one entry per column other than weight_col, whose value is
\* the sum of weight_col over the rows where the column is not null and
\* equals the value (0 when there is no such row).
C21_WeightedValueCount ==
    last.op = "weighted_value_count"
        => IF ~HasColumn(Frame, last.arg.weight_col)
           THEN last.out.kind = "ValueError"
           ELSE /\ last.out.kind = "ok"
                /\ OneEntryPer(last.out.val,
                               Range(Frame.columns) \ {last.arg.weight_col})
                /\ \A i \in DOMAIN last.out.val :
                       /\ last.out.val[i][2] =
                              SumCells(Frame, last.arg.weight_col,
                                       MatchingRows(last.out.val[i][1]))
                       /\ MatchingRows(last.out.val[i][1]) = {} => last.out.val[i][2] = 0

\* Column "a" holds the value in both rows and column "b" holds it in one
\* row and a null in the other: the totals are 3 and 2.
C21_Witness ==
    /\ last.op = "weighted_value_count"
    /\ Frame.columns = <<"a", "b", "count">>
    /\ Target = 0
    /\ Frame.rows = <<<<0, Null, 1>>, <<0, 0, 2>>>>
    /\ last.out = Ok(<<<<"a", 3>>, <<"b", 2>>>>)

\* C22: count_value_per_column raises ValueError when the value is None,
\* whatever the table; else it returns a mapping with exactly one entry per
\* column, whose value is the number of rows where the column is not null
\* and equals the value (the empty mapping for the table without columns).
C22_CountValuePerColumn ==
    last.op = "count_value_per_column"
        => IF Target = Null
           THEN last.out.kind = "ValueError"
           ELSE /\ last.out.kind = "ok"
                /\ OneEntryPer(last.out.val, Range(Frame.columns))
                /\ \A i \in DOMAIN last.out.val :
                       last.out.val[i][2] = Cardinality(MatchingRows(last.out.val[i][1]))
                /\ Frame.columns = <<>> => last.out.val = <<>>

\* Column "a" holds the value in one row and a null in the other, column "b"
\* holds another rank: the counts are 1 and 0.
C22_Witness ==
    /\ last.op = "count_value_per_column"
    /\ Frame.columns = <<"a", "b">>
    /\ Target = 1
    /\ Frame.rows = <<<<1, 0>>, <<Null, 0>>>>
    /\ last.out = Ok(<<<<"a", 1>>, <<"b", 0>>>>)

----------------------------------------------------------------------------
\* Consistency of the winner rules.

\* C23 (checked under Spec): on every constructed SingleMarkVote and for
\* every threshold above 0.5, a candidate returned by super_majority_winner
\* is the one absolute_majority_winner returns, and a candidate c returned by
\* absolute_majority_winner is the only plurality winner: plurality_winners()
\* is (c,) and plurality_winner() returns c.
C23_SingleMarkRulesConsistent ==
    IsVote(vote)
        => /\ \A threshold \in Thresholds :
                  LET super == super_majority_winner(vote, threshold)
                  IN (~AtMostHalf(threshold) /\ super.kind = "ok")
                         => absolute_majority_winner(vote) = Ok(super.val)
           /\ LET absolute == absolute_majority_winner(vote)
              IN absolute.kind = "ok"
                     => /\ plurality_winners(vote) = Ok(<<absolute.val>>)
                        /\ plurality_winner(vote) = Ok(absolute.val)

\* super_majority_winner(2/3) returned "b" on a tally where "a" has a vote too.
C23_Witness ==
    /\ IsVote(vote)
    /\ last.op = "super_majority_winner"
    /\ last.arg = <<2, 3>>
    /\ last.out.kind = "ok"
    /\ last.out.val = "b"
    /\ CountOf("a") = 1
    /\ CountOf("b") = 3

\* Every row of the vote ranks its n candidates with a permutation of 0 .. n-1.
PermutationRows ==
    \A r \in DOMAIN Ranking.rows :
        {Cell(Ranking, r, c) : c \in RankedCandidates} = 0 .. Cardinality(RankedCandidates) - 1

NonNegativeCounts == \A r \in DOMAIN Ranking.rows : RowCount(r) >= 0

\* The sum of the rank-0 totals of a set of candidates.
RECURSIVE SumFirstTotals(_)
SumFirstTotals(S) ==
    IF S = {} THEN 0
    ELSE LET c == CHOOSE x \in S : TRUE IN FirstTotal(c) + SumFirstTotals(S \ {c})

\* The rank-0 totals of the candidates sum to get_num_voters(), at most one
\* candidate holds more than half of the voters, and a candidate c returned
\* by absolute_majority_winner is the only plurality winner:
\* plurality_winners() is (c,) and plurality_winner() returns c.
FirstTotalsConsistent ==
    /\ RankedVote_get_num_voters(vote) = Ok(SumFirstTotals(RankedCandidates))
    /\ Cardinality({c \in RankedCandidates :
                       2 * FirstTotal(c) > RankedVote_get_num_voters(vote).val}) <= 1
    /\ LET absolute == RankedVote_absolute_majority_winner(vote)
       IN absolute.kind = "ok"
              => /\ RankedVote_plurality_winners(vote) = Ok(<<absolute.val>>)
                 /\ RankedVote_plurality_winner(vote) = Ok(absolute.val)

\* C24 as stated: on every ranked vote whose rows are permutations of
\* 0 .. n-1 over its n candidate columns and whose counts are non-negative,
\* the rank-0 totals sum to get_num_voters(), at most one candidate exceeds
\* half of the voters, and the absolute majority winner is the only
\* plurality winner.  A vote without a candidate column (n = 0) meets the two
\* conditions with any rows, and its totals sum to 0 whatever its voters.
C24_PermutationRowsConsistent ==
    (IsRanked(vote) /\ PermutationRows /\ NonNegativeCounts)
        => FirstTotalsConsistent

\* C24 as amended: the same on every such vote that has at least one
\* candidate column.
C24_PermutationRowsWithCandidates ==
    (IsRanked(vote) /\ RankedCandidates # {} /\ PermutationRows /\ NonNegativeCounts)
        => FirstTotalsConsistent

\* absolute_majority_winner returned "b" on a vote of two permutation rows
\* where "a" has a first preference too.
C24_Witness ==
    /\ IsRanked(vote)
    /\ RankedCandidates # {}
    /\ PermutationRows
    /\ NonNegativeCounts
    /\ last.op = "absolute_majority_winner"
    /\ last.out.kind = "ok"
    /\ last.out.val = "b"
    /\ FirstTotal("a") = 1
    /\ FirstTotal("b") = 2

\* The vote that the constructor builds on the table given to the factory.
Direct == RankedVote_init(Given, last.arg.count_col).val

\* C25: for a table with non-negative counts, the
\* vote built by from_dataframe_with_count and the vote built by the
\* constructor on the same table give the same get_num_candidates(), the same
\* get_num_voters(), the same plurality_winners() and the same outcome of
\* absolute_majority_winner().
C25_CompactionKeepsQueries ==
    (Built("from_dataframe_with_count")
         /\ \A r \in DOMAIN Given.rows : Cell(Given, r, last.arg.count_col) >= 0)
        => /\ RankedVote_init(Given, last.arg.count_col).kind = "ok"
           /\ RankedVote_get_num_candidates(vote) = RankedVote_get_num_candidates(Direct)
           /\ RankedVote_get_num_voters(vote) = RankedVote_get_num_voters(Direct)
           /\ RankedVote_plurality_winners(vote) = RankedVote_plurality_winners(Direct)
           /\ RankedVote_absolute_majority_winner(vote)
                  = RankedVote_absolute_majority_winner(Direct)

\* Two given rows of the same permutation became one row: the two votes are
\* not equal, and both name "a" the absolute majority winner.
C25_Witness ==
    /\ Built("from_dataframe_with_count")
    /\ Given.columns = <<"a", "b", "count">>
    /\ Given.rows = <<<<0, 1, 1>>, <<0, 1, 2>>>>
    /\ Len(Ranking.rows) = 1
    /\ ~RankedVote_equal(vote, Direct)
    /\ RankedVote_absolute_majority_winner(vote) = Ok("a")
    /\ RankedVote_absolute_majority_winner(Direct) = Ok("a")

====
